---- MODULE Spec2Model ----
(***************************************************************************)
(* Playback engine of the AI piano player (src/src/services/midiPlayer.ts) *)
(* as a state machine.  The engine keeps module-level globals (midiPlayer, *)
(* audioContext, instrument, isInitialized, currentTempo, noteCallback)    *)
(* and drives a midi-player-js Player object.  Asynchronous calls          *)
(* (initMidiPlayer, loadNoteSequence, playMidi) suspend at their awaits    *)
(* and are resumed by separate steps, so other calls interleave there.     *)
(*                                                                         *)
(* The Home component (src/src/components/home.tsx) mirrors the transport  *)
(* and polls the engine.  The pure functions of src/src/lib/musicUtils.ts  *)
(* and the MIDI builders of openai.ts and midiPlayer.ts are applied to     *)
(* arguments drawn in the initial state of their own specifications.       *)
(***************************************************************************)
EXTENDS Integers, Sequences, FiniteSets, TLC

\* ---- bounds ------------------------------------------------------------
MaxNotes == 2      \* longest note list handed to loadNoteSequence
MaxRaceNotes == 1  \* the same, where asynchronous calls overlap
MaxTasks == 2      \* asynchronous calls that may be suspended at once
MaxPlayers == 2    \* Player objects that are referenced or still running
MaxTokens == 4     \* longest list of pitch strings handed to a pure function
MaxObjects == 2    \* longest list of structured notes handed to one
MaxRecorded == 3   \* longest list of pitch strings handed to the recording

\* ---- inputs ------------------------------------------------------------
Tokens == { <<"C", "4">>, <<"D", "b", "4">>, <<"H", "2">> }
Tempos == {90, 120}
Callbacks == {1}

\* callbacks handed to setNoteTrackingCallback one after another; a
\* callback is user code and may raise: callback 3 does
Observers == {1, 2, 3}
Throws(cb) == cb = 3

\* the callback the Home component registers:
\* (note) => { setCurrentNote(note); }
HomeCallback == 4

DefaultTempo == 120  \* let currentTempo = 120

None == -1         \* the null handed to the observer (pitches are MIDI numbers)

\* volumes in tenths
FullVolume == 10   \* let globalVolume = 1.0
MinVolume == 0     \* Math.max(0, ...)
MaxVolume == 10    \* Math.min(1, volume)
\* arguments of setVolume: finite numbers, below, within and above the range
Volumes == {-5, 5, 15}
NoGain == -1       \* let gainNode = null

SeqsUpTo(S, n) == UNION { [1..k -> S] : k \in 0..n }
NoteLists == SeqsUpTo(Tokens, MaxNotes)
NoteSequences == [notes : NoteLists, tempo : Tempos]
RaceSequences == [notes : SeqsUpTo(Tokens, MaxRaceNotes), tempo : Tempos]
NoSequence == [notes |-> <<>>, tempo |-> 0]

\* a tempo that is not a positive number, and the note sequences carrying
\* any tempo
InvalidTempos == {-60}
AnySequences == [notes : NoteLists, tempo : Tempos \cup InvalidTempos]

\* pitch strings handed to validateNotes and to the MIDI builders
SequenceTokens ==
  { <<"C", "4">>, <<"E", "4">>, <<"G", "#", "3">>, <<"X", "9">>,
    <<"H", "2">>, <<"C", "1", "0">>, <<"c", "4">> }

\* strings handed to noteToFrequency and to the pitch parsing of the
\* builders: every letter, accidental and octave digit, and strings that
\* are no pitch
PitchInputs ==
  { <<l, o>> : l \in {"A", "B", "C", "D", "E", "F", "G"},
               o \in {"0", "1", "2", "3", "4", "5", "6", "7", "8", "9"} }
  \cup
  { <<l, a, o>> : l \in {"A", "B", "C", "D", "E", "F", "G"},
                  a \in {"#", "b"},
                  o \in {"0", "1", "2", "3", "4", "5", "6", "7", "8", "9"} }
  \cup
  { <<>>, <<"C">>, <<"C", "#">>, <<"D", "b">>, <<"c", "4">>, <<"H", "2">>,
    <<"4">>, <<"C", "1", "0">> }

\* a field that an element of noteSequence.notes does not have
NoValue == -1000

\* a bare pitch string as an element of noteSequence.notes
StringNote(tok) ==
  [bare |-> TRUE, pitch |-> tok, duration |-> NoValue, velocity |-> NoValue]

StringLists ==
  UNION { [1..k -> {StringNote(tok) : tok \in SequenceTokens}] :
          k \in 0..MaxTokens }

\* structured notes {pitch, duration, velocity}; durations are in tenths of
\* a second and velocities in tenths
ObjectLists ==
  UNION { [1..k -> [bare : {FALSE},
                    pitch : { <<"C", "4">>, <<"H", "2">> },
                    duration : {NoValue, 0, 3},
                    velocity : {NoValue, -2, 15}]] : k \in 1..MaxObjects }

VARIABLES
  midiPlayer,     \* id of the Player the engine references, 0 for null
  players,        \* the Player objects
  audioContext,   \* "none" (null), "running" or "suspended"
  instrument,     \* TRUE when a soundfont instrument is held
  isInitialized,
  currentTempo,
  noteCallback,   \* registered observer, 0 for null
  tasks,          \* suspended asynchronous calls, in the order issued
  lastNote,       \* last value handed to the observer
  lastObserver,   \* the callback that received it, 0 before any call
  globalVolume,   \* in tenths: 10 is 1.0
  gainNode,       \* gain.value of the gain node in tenths, NoGain for null
  stopQuiet,      \* stopMidi has returned and no playMidi was issued since
  isPlaying,      \* state of the Home component: its mirror of the transport
  currentNote,    \* state of the Home component: the key it highlights
  generatedNotes, \* state of the Home component: the validated tokens
  noteSequence,   \* argument of validateNotes and of the MIDI builders
  validNotes,     \* <<what validateNotes returned>>, <<>> before the call
  track,          \* <<what downloadMidiFromNoteSequence built>>
  timeline,       \* <<what loadNoteSequence built for the player>>
  noteStr,        \* argument of noteToFrequency, noteStr of a builder's loop
  frequency,      \* <<what noteToFrequency returned>>
  midiNumber,     \* <<the midiNoteNumber of the loop body>>
  recording       \* the call of downloadMp3FromNoteSequence: its position,
                  \* its recorder and instrument, the clock, what it scheduled

vars == << midiPlayer, players, audioContext, instrument, isInitialized,
           currentTempo, noteCallback, tasks, lastNote, lastObserver,
           globalVolume, gainNode, stopQuiet,
           isPlaying, currentNote, generatedNotes,
           noteSequence, validNotes, track, timeline,
           noteStr, frequency, midiNumber, recording >>

\* the state of the Home component
home == << isPlaying, currentNote, generatedNotes >>

\* arguments and results of the pure functions
codec == << noteSequence, validNotes, track, timeline,
            noteStr, frequency, midiNumber >>

\* the engine's own state
engine == << midiPlayer, players, audioContext, instrument, isInitialized,
             currentTempo, noteCallback, lastNote, lastObserver,
             globalVolume, gainNode >>

PlayerIds == 1..MaxPlayers

\* ---- pitch parsing of loadNoteSequence -----------------------------------
Letters == {"A", "B", "C", "D", "E", "F", "G"}
Digits == {"0", "1", "2", "3", "4", "5", "6", "7", "8", "9"}

DigitVal(c) ==
  CASE c = "0" -> 0 [] c = "1" -> 1 [] c = "2" -> 2 [] c = "3" -> 3
    [] c = "4" -> 4 [] c = "5" -> 5 [] c = "6" -> 6 [] c = "7" -> 7
    [] c = "8" -> 8 [] c = "9" -> 9

RECURSIVE ParseInt(_)
ParseInt(ds) ==
  IF ds = <<>> THEN 0
  ELSE 10 * ParseInt(SubSeq(ds, 1, Len(ds) - 1)) + DigitVal(ds[Len(ds)])

\* length of the note-name group ([A-G][#b]?) of the token, 0 on no match
NameLen(tok) ==
  IF Len(tok) = 0 \/ tok[1] \notin Letters THEN 0
  ELSE IF Len(tok) >= 2 /\ tok[2] \in {"#", "b"} THEN 2 ELSE 1

EngineMatch(tok) ==
  /\ NameLen(tok) > 0
  /\ Len(tok) > NameLen(tok)
  /\ \A i \in (NameLen(tok) + 1)..Len(tok) : tok[i] \in Digits

LetterBase(c) ==
  CASE c = "C" -> 60 [] c = "D" -> 62 [] c = "E" -> 64 [] c = "F" -> 65
    [] c = "G" -> 67 [] c = "A" -> 69 [] c = "B" -> 71

InBaseTable(name) ==
  \/ Len(name) = 1
  \/ name \in { <<"C", "#">>, <<"D", "b">>, <<"D", "#">>, <<"E", "b">>,
                <<"F", "#">>, <<"G", "b">>, <<"G", "#">>, <<"A", "b">>,
                <<"A", "#">>, <<"B", "b">> }

noteToMidiBaseC4(name) ==
  IF Len(name) = 1 THEN LetterBase(name[1])
  ELSE IF name[2] = "#" THEN LetterBase(name[1]) + 1
  ELSE LetterBase(name[1]) - 1

\* (variant) the octave is counted from 3
EngineMidi_FromOctave3(tok) ==
  LET name == SubSeq(tok, 1, NameLen(tok))
      octave == ParseInt(SubSeq(tok, NameLen(tok) + 1, Len(tok)))
      base == IF InBaseTable(name) THEN noteToMidiBaseC4(name)
              ELSE IF name[2] = "#" THEN LetterBase(name[1]) + 1
              ELSE LetterBase(name[1]) - 1
  IN base + (octave - 3) * 12

EngineMidi(tok) ==
  LET name == SubSeq(tok, 1, NameLen(tok))
      octave == ParseInt(SubSeq(tok, NameLen(tok) + 1, Len(tok)))
      base == IF InBaseTable(name) THEN noteToMidiBaseC4(name)
              ELSE IF name[2] = "#" THEN LetterBase(name[1]) + 1
              ELSE LetterBase(name[1]) - 1
  IN base + (octave - 4) * 12

RECURSIVE EngineNotes(_)
EngineNotes(toks) ==
  IF toks = <<>> THEN <<>>
  ELSE LET rest == EngineNotes(Tail(toks))
       IN IF EngineMatch(Head(toks)) THEN <<EngineMidi(Head(toks))>> \o rest
          ELSE rest

Min(S) == CHOOSE x \in S : \A y \in S : x <= y

\* ---- musicUtils.ts: the pitch grammar -------------------------------------
OctaveDigits == {"0", "1", "2", "3", "4", "5", "6", "7", "8"}

\* (variant) the letter is not checked
isValidNote_AnyLetter(note) ==
  \/ /\ Len(note) = 2
     /\ note[2] \in OctaveDigits
  \/ /\ Len(note) = 3
     /\ note[2] \in {"#", "b"}
     /\ note[3] \in OctaveDigits

\* /^[A-G](#|b)?[0-8]$/.test(note)
isValidNote(note) ==
  \/ /\ Len(note) = 2
     /\ note[1] \in Letters
     /\ note[2] \in OctaveDigits
  \/ /\ Len(note) = 3
     /\ note[1] \in Letters
     /\ note[2] \in {"#", "b"}
     /\ note[3] \in OctaveDigits

\* notes.filter((note) => isValidNote(note))
validateNotes(notes) == SelectSeq(notes, isValidNote)

\* ---- musicUtils.ts: noteToFrequency ---------------------------------------
\* str.replace(pat, rep) with a string pattern: the first occurrence only
ReplaceFirst(str, pat, rep) ==
  LET at == {i \in 1..(Len(str) - Len(pat) + 1) :
               SubSeq(str, i, i + Len(pat) - 1) = pat}
  IN IF at = {} THEN str
     ELSE SubSeq(str, 1, Min(at) - 1) \o rep \o
          SubSeq(str, Min(at) + Len(pat), Len(str))

\* (variant) Gb is not converted
normalizedNoteName_KeepsGb(noteName) ==
  ReplaceFirst(ReplaceFirst(ReplaceFirst(ReplaceFirst(noteName,
    <<"B", "b">>, <<"A", "#">>), <<"D", "b">>, <<"C", "#">>),
    <<"E", "b">>, <<"D", "#">>), <<"A", "b">>, <<"G", "#">>)

\* the chain of replace calls that turns flats into sharps
normalizedNoteName(noteName) ==
  ReplaceFirst(ReplaceFirst(ReplaceFirst(ReplaceFirst(ReplaceFirst(noteName,
    <<"B", "b">>, <<"A", "#">>), <<"D", "b">>, <<"C", "#">>),
    <<"E", "b">>, <<"D", "#">>), <<"G", "b">>, <<"F", "#">>),
    <<"A", "b">>, <<"G", "#">>)

\* The result is the sentinel 0 (kind "zero"), NaN (kind "NaN") or
\* 440 * 2^(semitonesFromA4 / 12) (kind "hz").
noteToFrequency(note) ==
  LET notes == << <<"C">>, <<"C", "#">>, <<"D">>, <<"D", "#">>, <<"E">>,
                  <<"F">>, <<"F", "#">>, <<"G">>, <<"G", "#">>, <<"A">>,
                  <<"A", "#">>, <<"B">> >>
      last == IF note = <<>> THEN "" ELSE note[Len(note)]
      noteName == IF last \in OctaveDigits
                  THEN SubSeq(note, 1, Len(note) - 1) ELSE note
      octaveIsNaN == last \notin Digits
      found == {i \in 1..Len(notes) : notes[i] = normalizedNoteName(noteName)}
      noteIndex == IF found = {} THEN -1 ELSE Min(found) - 1
  IN IF noteIndex = -1 THEN [kind |-> "zero", semitonesFromA4 |-> 0]
     ELSE IF octaveIsNaN THEN [kind |-> "NaN", semitonesFromA4 |-> 0]
     ELSE [kind |-> "hz",
           semitonesFromA4 |-> (DigitVal(last) - 4) * 12 + noteIndex - 9]

\* ---- openai.ts: downloadMidiFromNoteSequence ------------------------------
\* The loop body from noteStr.match(/^([A-G][#b]?)(\d+)$/) to
\* "midiNoteNumber += (octave - 4) * 12": NoValue when there is no match.
midiNoteNumber(str) ==
  LET n == IF Len(str) >= 2 /\ str[2] \in {"#", "b"} THEN 2 ELSE 1
      match == /\ Len(str) > n
               /\ str[1] \in Letters
               /\ \A i \in (n + 1)..Len(str) : str[i] \in Digits
      noteName == SubSeq(str, 1, n)
      octave == ParseInt(SubSeq(str, n + 1, Len(str)))
      table == [name \in
                 { <<"C">>, <<"C", "#">>, <<"D", "b">>, <<"D">>, <<"D", "#">>,
                   <<"E", "b">>, <<"E">>, <<"F">>, <<"F", "#">>, <<"G", "b">>,
                   <<"G">>, <<"G", "#">>, <<"A", "b">>, <<"A">>, <<"A", "#">>,
                   <<"B", "b">>, <<"B">> } |->
                 CASE name \in { <<"C">> } -> 60
                   [] name \in { <<"C", "#">>, <<"D", "b">> } -> 61
                   [] name \in { <<"D">> } -> 62
                   [] name \in { <<"D", "#">>, <<"E", "b">> } -> 63
                   [] name \in { <<"E">> } -> 64
                   [] name \in { <<"F">> } -> 65
                   [] name \in { <<"F", "#">>, <<"G", "b">> } -> 66
                   [] name \in { <<"G">> } -> 67
                   [] name \in { <<"G", "#">>, <<"A", "b">> } -> 68
                   [] name \in { <<"A">> } -> 69
                   [] name \in { <<"A", "#">>, <<"B", "b">> } -> 70
                   [] name \in { <<"B">> } -> 71]
      base == IF noteName \in DOMAIN table THEN table[noteName]
              ELSE IF noteName[2] = "#" THEN table[<<noteName[1]>>] + 1
              ELSE table[<<noteName[1]>>] - 1
  IN IF match THEN base + (octave - 4) * 12 ELSE NoValue

\* (variant) a skipped token takes its half second all the same
RECURSIVE Events_SkipAdvances(_, _)
Events_SkipAdvances(notes, currentTime) ==
  IF notes = <<>> THEN <<>>
  ELSE LET n == Head(notes)
           midi == midiNoteNumber(n.pitch)
       IN IF midi = NoValue
          THEN Events_SkipAdvances(Tail(notes), currentTime + 5)
          ELSE << [midi |-> midi, time |-> currentTime, duration |-> 5,
                   velocity |-> 8] >>
               \o Events_SkipAdvances(Tail(notes), currentTime + 5)

\* (variant) the velocity of a structured note is taken as it is
RECURSIVE Events_NoClamp(_, _)
Events_NoClamp(notes, currentTime) ==
  IF notes = <<>> THEN <<>>
  ELSE LET n == Head(notes)
           duration == IF n.bare \/ n.duration = NoValue THEN 5
                       ELSE n.duration
           velocity == IF n.bare \/ n.velocity = NoValue THEN 8
                       ELSE n.velocity
           midi == midiNoteNumber(n.pitch)
       IN IF midi = NoValue THEN Events_NoClamp(Tail(notes), currentTime)
          ELSE << [midi |-> midi, time |-> currentTime,
                   duration |-> duration, velocity |-> velocity] >>
               \o Events_NoClamp(Tail(notes), currentTime + duration)

\* The forEach loops over noteSequence.notes: the notes added to the
\* track, currentTime being the cursor.  Times and durations are in tenths
\* of a second, velocities in tenths.
RECURSIVE Events(_, _)
Events(notes, currentTime) ==
  IF notes = <<>> THEN <<>>
  ELSE LET n == Head(notes)
           duration == IF n.bare \/ n.duration = NoValue THEN 5
                       ELSE n.duration
           velocity == IF n.bare \/ n.velocity = NoValue THEN 8
                       ELSE IF n.velocity > 10 THEN 10
                       ELSE IF n.velocity < 0 THEN 0
                       ELSE n.velocity
           midi == midiNoteNumber(n.pitch)
       IN IF midi = NoValue THEN Events(Tail(notes), currentTime)
          ELSE << [midi |-> midi, time |-> currentTime,
                   duration |-> duration, velocity |-> velocity] >>
               \o Events(Tail(notes), currentTime + duration)

\* (variant) a file is made of whatever the track holds
DownloadTrack_AlwaysFile(ns) ==
  [error |-> FALSE, notes |-> Events(ns.notes, 0)]

\* what the function has built when it returns or throws: no file is
\* made of an empty list or of a track without notes
DownloadTrack(ns) ==
  [error |-> Events(ns.notes, 0) = <<>>, notes |-> Events(ns.notes, 0)]

\* ---- midiPlayer.ts: the track loadNoteSequence builds -------------------
\* The for loop over noteSequence.notes; an element that is no string has
\* no match method, and the catch of the loop body skips it.
RECURSIVE LoadEvents(_, _)
LoadEvents(notes, currentTime) ==
  IF notes = <<>> THEN <<>>
  ELSE IF Head(notes).bare /\ EngineMatch(Head(notes).pitch)
  THEN << [midi |-> EngineMidi(Head(notes).pitch), time |-> currentTime,
           duration |-> 5, velocity |-> 8] >>
       \o LoadEvents(Tail(notes), currentTime + 5)
  ELSE LoadEvents(Tail(notes), currentTime)

\* ---- the Player object of midi-player-js -------------------------------
\* A loaded Player holds, per note i of k, a Note-on event (event 2i-1)
\* and a Note-off event (event 2i), sorted by tick; eventIndex counts the
\* events already handed to the handler and heard lists the pitches of the
\* Note-on events among them.  The Player's clock is not
\* modelled: while the interval timer runs, playLoop hands over the next
\* event or finds the end of the file at any time, which covers every
\* tempo and every timer delay.
BlankPlayer ==
  [ playing |-> FALSE, loaded |-> FALSE, notes |-> <<>>, eventIndex |-> 0,
    tempo |-> 0, heard |-> <<>> ]

NumEvents(p) == 2 * Len(p.notes)
EventIsOn(j) == j % 2 = 1
EventNote(p, j) == p.notes[(j + 1) \div 2]

\* (variant) play() rewinds the tracks
PlayerPlay_Restarts(p) == [p EXCEPT !.playing = TRUE, !.eventIndex = 0]

\* Player.play(): the interval timer is started
PlayerPlay(p) == [p EXCEPT !.playing = TRUE]

\* (variant) pause() rewinds the tracks as stop() does
PlayerPause_Rewinds(p) == [p EXCEPT !.playing = FALSE, !.eventIndex = 0]

\* Player.pause(): the timer is cleared, the position is kept
PlayerPause(p) == [p EXCEPT !.playing = FALSE]

\* Player.stop(): the timer is cleared, the tracks are reset
PlayerStop(p) ==
  [p EXCEPT !.playing = FALSE, !.eventIndex = 0, !.heard = <<>>]

\* loadDataUri of the MIDI built from the notes, then the tempo assignment
PlayerLoad(p, midis, tempo) ==
  [p EXCEPT !.loaded = TRUE, !.notes = midis, !.eventIndex = 0,
            !.tempo = tempo, !.heard = <<>>]

\* ---- engine globals as one record ------------------------------------
Cur ==
  [ mp |-> midiPlayer, pl |-> players, ctx |-> audioContext,
    ins |-> instrument, init |-> isInitialized, tempo |-> currentTempo,
    cb |-> noteCallback, last |-> lastNote, lastcb |-> lastObserver,
    vol |-> globalVolume, gain |-> gainNode,
    uiPlaying |-> isPlaying, note |-> currentNote, gen |-> generatedNotes,
    n |-> 0 ]   \* n counts the calls of noteCallback made by the operation

\* A Player that is neither referenced nor running can never act again;
\* of a running Player the engine no longer references, only the events
\* still to come can make a difference.
Collect(s) ==
  [s EXCEPT !.pl = [i \in PlayerIds |->
     IF i = s.mp THEN s.pl[i]
     ELSE IF ~s.pl[i].playing THEN BlankPlayer
     ELSE [s.pl[i] EXCEPT !.tempo = 0, !.heard = <<>>]]]

\* (variant) registrations stack: the value goes to two callbacks
Notify_Stacked(s, value) ==
  IF s.cb # 0
  THEN [s EXCEPT !.last = value, !.lastcb = s.cb, !.n = s.n + 2,
                 !.note = IF s.cb = HomeCallback THEN value ELSE s.note]
  ELSE s

\* noteCallback(value) when a callback is registered; the callback of the
\* Home component stores the value as its currentNote
Notify(s, value) ==
  IF s.cb # 0
  THEN [s EXCEPT !.last = value, !.lastcb = s.cb, !.n = s.n + 1,
                 !.note = IF s.cb = HomeCallback THEN value ELSE s.note]
  ELSE s

\* (variant) stopMidi without the noteCallback(null)
StopEngine_NoNotify(s) ==
  IF s.mp # 0 THEN [s EXCEPT !.pl[s.mp] = PlayerStop(s.pl[s.mp])] ELSE s

\* stopMidi
StopEngine(s) ==
  IF s.mp # 0
  THEN Notify([s EXCEPT !.pl[s.mp] = PlayerStop(s.pl[s.mp])], None)
  ELSE s

\* pauseMidi
PauseEngine(s) ==
  IF s.mp # 0 /\ s.pl[s.mp].playing
  THEN [s EXCEPT !.pl[s.mp] = PlayerPause(s.pl[s.mp])]
  ELSE s

\* (variant) setMidiTempo rewinds the player
TempoEngine_Rewinds(s, t) ==
  IF s.mp # 0
  THEN [s EXCEPT !.tempo = t, !.pl[s.mp].tempo = t, !.pl[s.mp].eventIndex = 0]
  ELSE [s EXCEPT !.tempo = t]

\* setMidiTempo
TempoEngine(s, t) ==
  IF s.mp # 0
  THEN [s EXCEPT !.tempo = t, !.pl[s.mp].tempo = t]
  ELSE [s EXCEPT !.tempo = t]

\* Math.max(0, Math.min(1, volume))
Clamp(v) ==
  IF v > MaxVolume THEN MaxVolume ELSE IF v < MinVolume THEN MinVolume ELSE v

\* setVolume
VolumeEngine(s, v) ==
  IF s.gain # NoGain
  THEN [s EXCEPT !.vol = Clamp(v), !.gain = Clamp(v)]
  ELSE [s EXCEPT !.vol = Clamp(v)]

\* isMidiPlaying
isMidiPlaying == midiPlayer # 0 /\ players[midiPlayer].playing

\* (variant) cleanupMidiPlayer leaves the callback registered
CleanupEngine_KeepsCallback(s) ==
  LET s1 == IF s.mp # 0
            THEN [s EXCEPT !.pl[s.mp] = PlayerStop(s.pl[s.mp]), !.mp = 0]
            ELSE s
  IN Collect([s1 EXCEPT !.ctx = "none", !.ins = FALSE, !.init = FALSE])

\* cleanupMidiPlayer
CleanupEngine(s) ==
  LET s1 == IF s.mp # 0
            THEN [s EXCEPT !.pl[s.mp] = PlayerStop(s.pl[s.mp]), !.mp = 0]
            ELSE s
  IN Collect([s1 EXCEPT !.ctx = "none", !.ins = FALSE, !.init = FALSE,
                        !.cb = 0])

\* ---- initMidiPlayer, cut at its awaits --------------------------------
\* Each piece returns <<state, pc>>: pc is "done" when the call ran to its
\* end and otherwise names the await at which it is suspended.  A state
\* with mp = -1 means that no Player object is left within MaxPlayers.

\* midiPlayer = new MidiPlayer.Player(handler); isInitialized = true
InitFinish(s) ==
  LET free == {i \in PlayerIds : ~s.pl[i].playing}
  IN IF free = {} THEN [s EXCEPT !.mp = -1]
     ELSE LET id == Min(free)
          IN Collect([s EXCEPT !.mp = id, !.pl[id] = BlankPlayer,
                               !.init = TRUE])

\* if (midiPlayer) midiPlayer.stop(); if (!instrument) await ...
InitStopOld(s) ==
  LET s1 == IF s.mp # 0
            THEN [s EXCEPT !.pl[s.mp] = PlayerStop(s.pl[s.mp])]
            ELSE s
  IN IF ~s1.ins THEN <<s1, "instr">> ELSE <<InitFinish(s1), "done">>

\* (variant) the gain node is created at full gain
InitEnter_FullGain(s, c) ==
  IF s.ctx = "none" THEN InitStopOld([s EXCEPT !.ctx = c, !.gain = FullVolume])
  ELSE IF s.ctx = "suspended" THEN <<s, "resume">>
  ELSE InitStopOld(s)

\* c is the state in which the browser creates a new audio context
InitEnter(s, c) ==
  IF s.ctx = "none" THEN InitStopOld([s EXCEPT !.ctx = c, !.gain = s.vol])
  ELSE IF s.ctx = "suspended" THEN <<s, "resume">>
  ELSE InitStopOld(s)

\* ---- what a call does once its initMidiPlayer has completed -----------
\* Each returns <<state, pc, ok>>.

\* loadNoteSequence after "await initMidiPlayer()"
LoadRest(s, ns) ==
  LET s1 == [s EXCEPT !.tempo = ns.tempo]
      midis == EngineNotes(ns.notes)
  IN IF s1.mp = 0 \/ midis = <<>> THEN <<s1, "done", FALSE>>
     ELSE << [s1 EXCEPT !.pl[s1.mp] =
                PlayerLoad(s1.pl[s1.mp], midis, ns.tempo)], "done", TRUE >>

\* playMidi from "if (!midiPlayer)" on
PlayFinish(s) ==
  IF s.mp = 0 THEN <<s, "done", FALSE>>
  ELSE IF ~s.pl[s.mp].playing
  THEN << [s EXCEPT !.pl[s.mp] = PlayerPlay(s.pl[s.mp])], "done", TRUE >>
  ELSE <<s, "done", TRUE>>

\* playMidi from "if (audioContext?.state === 'suspended')" on
PlayAfterInit(s) ==
  IF s.ctx = "suspended" THEN <<s, "presume", TRUE>> ELSE PlayFinish(s)

AfterInit(op, s, ns) ==
  IF s.mp = -1 THEN <<s, "done", FALSE>>
  ELSE CASE op = "init" -> <<s, "done", TRUE>>
         [] op = "load" -> LoadRest(s, ns)
         [] op = "play" -> PlayAfterInit(s)

\* r is the <<state, pc>> in which the initMidiPlayer of call op stands
From(op, r, ns) ==
  IF r[2] = "done" THEN AfterInit(op, r[1], ns) ELSE <<r[1], r[2], TRUE>>

\* ---- suspended calls ---------------------------------------------------
\* A suspended call: which function (op), the await it stands at (pc),
\* for a load, the timeline installed by the last load that was
\* issued after it and has already completed (later), and whether an
\* audio context existed when the call was issued (had).
\* loadNoteSequence does not read its argument before its initMidiPlayer
\* has completed, so the argument of a suspended load is drawn when the
\* call resumes.
NoTimeline == <<>>
NewTask(op, pc) ==
  [op |-> op, pc |-> pc, later |-> NoTimeline, had |-> audioContext # "none"]

Remove(q, i) == SubSeq(q, 1, i - 1) \o SubSeq(q, i + 1, Len(q))

\* a load has installed midis: the loads issued before it (positions below
\* upto) have been overtaken
Overtake(q, upto, midis) ==
  [j \in 1..Len(q) |->
     IF j < upto /\ q[j].op = "load" THEN [q[j] EXCEPT !.later = midis]
     ELSE q[j]]

SetEngine(s) ==
  /\ midiPlayer' = s.mp
  /\ players' = s.pl
  /\ audioContext' = s.ctx
  /\ instrument' = s.ins
  /\ isInitialized' = s.init
  /\ currentTempo' = s.tempo
  /\ noteCallback' = s.cb
  /\ lastNote' = s.last
  /\ lastObserver' = s.lastcb
  /\ globalVolume' = s.vol
  /\ gainNode' = s.gain
  /\ isPlaying' = s.uiPlaying
  /\ currentNote' = s.note
  /\ generatedNotes' = s.gen
  /\ UNCHANGED << codec, recording >>

\* r = <<state, pc, ok>> is where call op stands after running as far as it
\* can; i is its position in tasks, 0 for a call that has just been issued.
Settle(op, r, i) ==
  /\ r[1].mp # -1
  /\ SetEngine(r[1])
  /\ IF r[2] = "done"
     THEN tasks' =
            LET q == IF op = "load" /\ r[3]
                     THEN Overtake(tasks,
                                   IF i = 0 THEN Len(tasks) + 1 ELSE i,
                                   r[1].pl[r[1].mp].notes)
                     ELSE tasks
            IN IF i = 0 THEN q ELSE Remove(q, i)
     ELSE /\ i = 0 => Len(tasks) < MaxTasks
          /\ tasks' = IF i = 0 THEN Append(tasks, NewTask(op, r[2]))
                      ELSE [tasks EXCEPT ![i].pc = r[2]]

\* ---- actions ---------------------------------------------------------------
EngineInit ==
  /\ midiPlayer = 0
  /\ players = [i \in PlayerIds |-> BlankPlayer]
  /\ audioContext = "none"
  /\ instrument = FALSE
  /\ isInitialized = FALSE
  /\ currentTempo = DefaultTempo
  /\ noteCallback = 0
  /\ tasks = <<>>
  /\ lastNote = None
  /\ lastObserver = 0
  /\ globalVolume = FullVolume
  /\ gainNode = NoGain
  /\ stopQuiet = FALSE
  /\ isPlaying = FALSE
  /\ currentNote = None
  /\ generatedNotes = <<>>

\* downloadMp3FromNoteSequence has not been called; times are in ticks
NotRecording ==
  [ pc |-> "idle", recorder |-> "none", instrument |-> "none", clock |-> 0,
    startedAt |-> -1, scheduled |-> <<>>, totalDuration |-> 0,
    stoppedAt |-> -1 ]

\* no pure function has been called
Init ==
  /\ EngineInit
  /\ recording = NotRecording
  /\ noteSequence = NoSequence
  /\ validNotes = <<>>
  /\ track = <<>>
  /\ timeline = <<>>
  /\ noteStr = <<>>
  /\ frequency = <<>>
  /\ midiNumber = <<>>

SetNoteTrackingCallback(cb) ==
  /\ noteCallback # cb
  /\ noteCallback' = cb
  /\ UNCHANGED << midiPlayer, players, audioContext, instrument,
                  isInitialized, currentTempo, tasks, lastNote,
                  lastObserver, globalVolume, gainNode, stopQuiet, home,
                  codec, recording >>

\* c is the state in which the browser creates the audio context, should
\* the call create one
LoadNoteSequence(ns, c) ==
  /\ Settle("load", From("load", InitEnter(Cur, c), ns), 0)
  /\ UNCHANGED stopQuiet

PlayMidi(c) ==
  /\ Settle("play",
            IF ~isInitialized
            THEN From("play", InitEnter(Cur, c), NoSequence)
            ELSE PlayAfterInit(Cur),
            0)
  /\ stopQuiet' = FALSE

PauseMidi ==
  /\ SetEngine(PauseEngine(Cur))
  /\ UNCHANGED << tasks, stopQuiet >>

StopMidi ==
  /\ SetEngine(StopEngine(Cur))
  /\ stopQuiet' = TRUE
  /\ UNCHANGED tasks

SetMidiTempo(t) ==
  /\ SetEngine(TempoEngine(Cur, t))
  /\ UNCHANGED << tasks, stopQuiet >>

SetVolume(v) ==
  /\ SetEngine(VolumeEngine(Cur, v))
  /\ UNCHANGED << tasks, stopQuiet >>

\* The context is closed, so every resume() still pending on it is
\* rejected: the calls awaiting it fail without touching the engine.
CleanupMidiPlayer ==
  /\ SetEngine(CleanupEngine(Cur))
  /\ tasks' = SelectSeq(tasks, LAMBDA t : t.pc \notin {"resume", "presume"})
  /\ UNCHANGED stopQuiet

\* audioContext.resume() settles for the call at position i; ns is the
\* argument of that call
ResumeSettles(i, ns) ==
  /\ tasks[i].pc \in {"resume", "presume"}
  /\ LET s == [Cur EXCEPT !.ctx = "running"]
     IN Settle(tasks[i].op,
               IF tasks[i].pc = "resume"
               THEN From(tasks[i].op, InitStopOld(s), ns)
               ELSE PlayFinish(s),
               i)
  /\ UNCHANGED stopQuiet

\* Soundfont.instrument(...) resolves for the call at position i
InstrumentResolves(i, ns) ==
  /\ tasks[i].pc \in {"instr", "instr2"}
  /\ Settle(tasks[i].op,
            AfterInit(tasks[i].op, InitFinish([Cur EXCEPT !.ins = TRUE]),
                      ns),
            i)
  /\ UNCHANGED stopQuiet

\* Soundfont.instrument(...) rejects for the call at position i: the first
\* time the catch block awaits the fallback instrument; when the fallback
\* rejects too, initMidiPlayer returns Promise.reject and its caller throws.
InstrumentRejects(i) ==
  /\ tasks[i].pc \in {"instr", "instr2"}
  /\ tasks' = IF tasks[i].pc = "instr"
              THEN [tasks EXCEPT ![i].pc = "instr2"]
              ELSE Remove(tasks, i)
  /\ UNCHANGED << engine, stopQuiet, home, codec, recording >>

\* audioContext.resume() rejects for the call at position i: the call
\* fails where it stands
ResumeRejects(i) ==
  /\ tasks[i].pc \in {"resume", "presume"}
  /\ tasks' = Remove(tasks, i)
  /\ UNCHANGED << engine, stopQuiet, home, codec, recording >>

\* ---- the Player's interval timer ------------------------------------------
\* The handler given to new MidiPlayer.Player: event j of player id.  An
\* exception of noteCallback leaves the handler before instrument.play.
HandleEvent(s, id, j) ==
  LET p == s.pl[id]
      s1 == IF id = s.mp
            THEN [s EXCEPT !.pl[id].heard = Append(p.heard, EventNote(p, j))]
            ELSE s
  IN IF ~EventIsOn(j) THEN s
     ELSE IF Throws(s.cb) THEN Notify(s, EventNote(p, j))
     ELSE Notify(s1, EventNote(p, j))

\* (variant) the 'endOfFile' listener does not clear the current note
HandleEndOfFile_NoNull(s, id) ==
  LET s1 == StopEngine_NoNotify(s)
  IN Collect([s1 EXCEPT !.pl[id] = PlayerStop(s1.pl[id])])

\* The 'endOfFile' listener, then the Player's own stop(); an exception of
\* noteCallback leaves the listener, and playLoop, before either stop.
HandleEndOfFile(s, id) ==
  LET s1 == StopEngine(Notify(s, None))
  IN IF Throws(s.cb) THEN Notify(s, None)
     ELSE Collect([s1 EXCEPT !.pl[id] = PlayerStop(s1.pl[id])])

\* playLoop of a running player hands the next event to the handler
PlayLoopEvent(id) ==
  LET p == players[id]
  IN /\ p.playing /\ p.loaded
     /\ p.eventIndex < NumEvents(p)
     /\ SetEngine(HandleEvent(
          [Cur EXCEPT !.pl[id].eventIndex = p.eventIndex + 1],
          id, p.eventIndex + 1))
     /\ UNCHANGED << tasks, stopQuiet >>

\* playLoop of a running player finds the end of the file
PlayLoopEndOfFile(id) ==
  LET p == players[id]
  IN /\ p.playing /\ p.loaded
     /\ SetEngine(HandleEndOfFile(Cur, id))
     /\ UNCHANGED << tasks, stopQuiet >>

\* ---- the handlers of the Home component ------------------------------------
\* after "await playMidi()" has returned without an error: setIsPlaying(true)
Mirror(op, r) ==
  << IF op = "play" /\ r[2] = "done" /\ r[3]
     THEN [r[1] EXCEPT !.uiPlaying = TRUE] ELSE r[1],
     r[2], r[3] >>

\* handleGenerate from "const validNotes = validateNotes(result.notes)" on;
\* result is what generateMusicFromPrompt returned
handleGenerate(result, c) ==
  LET valid == validateNotes(result.notes)
  IN /\ valid # <<>>
     /\ Settle("load",
               From("load", InitEnter([Cur EXCEPT !.gen = valid], c),
                    [notes |-> valid, tempo |-> result.tempo]),
               0)
     /\ UNCHANGED stopQuiet

handlePlay(c) ==
  /\ generatedNotes # <<>>
  /\ Settle("play",
            Mirror("play",
                   IF ~isInitialized
                   THEN From("play", InitEnter(Cur, c), NoSequence)
                   ELSE PlayAfterInit(Cur)),
            0)
  /\ stopQuiet' = FALSE

handlePause ==
  /\ SetEngine([PauseEngine(Cur) EXCEPT !.uiPlaying = FALSE])
  /\ UNCHANGED << tasks, stopQuiet >>

handleStop ==
  /\ SetEngine([StopEngine(Cur) EXCEPT !.uiPlaying = FALSE, !.note = None])
  /\ stopQuiet' = TRUE
  /\ UNCHANGED tasks

\* the interval callback of the effect that depends on isPlaying
checkPlaybackStatus ==
  /\ isPlaying /\ ~isMidiPlaying
  /\ SetEngine([Cur EXCEPT !.uiPlaying = FALSE, !.note = None])
  /\ UNCHANGED << tasks, stopQuiet >>

\* a suspended call of a handler goes on: the load's argument is
\* [notes |-> generatedNotes, tempo |-> t]
HomeResumeSettles(i, t) ==
  /\ tasks[i].pc \in {"resume", "presume"}
  /\ LET s == [Cur EXCEPT !.ctx = "running"]
         ns == [notes |-> generatedNotes, tempo |-> t]
     IN Settle(tasks[i].op,
               Mirror(tasks[i].op,
                      IF tasks[i].pc = "resume"
                      THEN From(tasks[i].op, InitStopOld(s), ns)
                      ELSE PlayFinish(s)),
               i)
  /\ UNCHANGED stopQuiet

HomeInstrumentResolves(i, t) ==
  /\ tasks[i].pc \in {"instr", "instr2"}
  /\ Settle(tasks[i].op,
            Mirror(tasks[i].op,
                   AfterInit(tasks[i].op,
                             InitFinish([Cur EXCEPT !.ins = TRUE]),
                             [notes |-> generatedNotes, tempo |-> t])),
            i)
  /\ UNCHANGED stopQuiet

\* ---- inputs of the steps -------------------------------------------------
CtxStates == {"running", "suspended"}
NewCtx == IF audioContext = "none" THEN CtxStates ELSE {audioContext}

\* the arguments, out of Args, that make a difference to a load issued now
LoadArgs(Args, c) ==
  IF InitEnter(Cur, c)[2] = "done" THEN Args ELSE {NoSequence}

\* the arguments of the suspended call at position i
TaskArgs(Args, i) == IF tasks[i].op = "load" THEN Args ELSE {NoSequence}

Register == \E cb \in Callbacks : SetNoteTrackingCallback(cb)
RegisterAny == \E cb \in Observers : SetNoteTrackingCallback(cb)
Tempo == \E t \in Tempos : SetMidiTempo(t)
LoopEvent == \E id \in PlayerIds : PlayLoopEvent(id)
LoopEndOfFile == \E id \in PlayerIds : PlayLoopEndOfFile(id)

\* The caller awaits every asynchronous call before it issues the next
\* one; the synchronous calls and the Player's timer run at any time.
Load ==
  /\ tasks = <<>>
  /\ \E c \in NewCtx : \E ns \in LoadArgs(NoteSequences, c) :
       LoadNoteSequence(ns, c)

Play == tasks = <<>> /\ \E c \in NewCtx : PlayMidi(c)

Resumed ==
  \E i \in 1..Len(tasks) : \E ns \in TaskArgs(NoteSequences, i) :
    ResumeSettles(i, ns)

InstrumentLoaded ==
  \E i \in 1..Len(tasks) : \E ns \in TaskArgs(NoteSequences, i) :
    InstrumentResolves(i, ns)

Next ==
  \/ Register
  \/ Load
  \/ Play
  \/ PauseMidi
  \/ StopMidi
  \/ Tempo
  \/ CleanupMidiPlayer
  \/ Resumed
  \/ InstrumentLoaded
  \/ LoopEvent
  \/ LoopEndOfFile

Spec == Init /\ [][Next]_vars

\* The timer of a running Player keeps firing.
LiveSpec == Spec /\ WF_vars(LoopEvent \/ LoopEndOfFile)

\* The caller registers one callback after another, one of which raises.
ObserverNext ==
  \/ RegisterAny
  \/ Load
  \/ Play
  \/ PauseMidi
  \/ StopMidi
  \/ Tempo
  \/ CleanupMidiPlayer
  \/ Resumed
  \/ InstrumentLoaded
  \/ LoopEvent
  \/ LoopEndOfFile

ObserverSpec == Init /\ [][ObserverNext]_vars

\* The generator hands over note sequences whose tempo may be invalid.
LoadAny ==
  /\ tasks = <<>>
  /\ \E c \in NewCtx : \E ns \in LoadArgs(AnySequences, c) :
       LoadNoteSequence(ns, c)

ResumedAny ==
  \E i \in 1..Len(tasks) : \E ns \in TaskArgs(AnySequences, i) :
    ResumeSettles(i, ns)

InstrumentLoadedAny ==
  \E i \in 1..Len(tasks) : \E ns \in TaskArgs(AnySequences, i) :
    InstrumentResolves(i, ns)

TempoNext ==
  \/ Register
  \/ LoadAny
  \/ Play
  \/ PauseMidi
  \/ StopMidi
  \/ Tempo
  \/ CleanupMidiPlayer
  \/ ResumedAny
  \/ InstrumentLoadedAny
  \/ LoopEvent
  \/ LoopEndOfFile

TempoSpec == Init /\ [][TempoNext]_vars

\* The Home component: it registers its callback when it mounts, its
\* handlers await the asynchronous calls, and its interval polls the engine.
Mount == SetNoteTrackingCallback(HomeCallback)

Generate ==
  /\ tasks = <<>>
  /\ \E c \in NewCtx : \E result \in NoteSequences : handleGenerate(result, c)

PressPlay == tasks = <<>> /\ \E c \in NewCtx : handlePlay(c)

HomeResumed ==
  \E i \in 1..Len(tasks) : \E t \in Tempos : HomeResumeSettles(i, t)

HomeInstrumentLoaded ==
  \E i \in 1..Len(tasks) : \E t \in Tempos : HomeInstrumentResolves(i, t)

HomeNext ==
  \/ Mount
  \/ Generate
  \/ PressPlay
  \/ handlePause
  \/ handleStop
  \/ checkPlaybackStatus
  \/ HomeResumed
  \/ HomeInstrumentLoaded
  \/ LoopEvent
  \/ LoopEndOfFile

HomeSpec == Init /\ [][HomeNext]_vars

\* The interval of the component keeps firing.
HomeLiveSpec == HomeSpec /\ WF_vars(checkPlaybackStatus)

\* The pure functions over note sequences: each is called once on an
\* argument drawn at the start.
SequenceInit ==
  /\ EngineInit
  /\ recording = NotRecording
  /\ noteSequence \in [notes : StringLists \cup ObjectLists,
                        tempo : {DefaultTempo}]
  /\ validNotes = <<>>
  /\ track = <<>>
  /\ timeline = <<>>
  /\ noteStr = <<>>
  /\ frequency = <<>>
  /\ midiNumber = <<>>

\* the pitch strings of a list of bare notes
Pitches(notes) == [i \in 1..Len(notes) |-> notes[i].pitch]

\* const validNotes = validateNotes(result.notes)
Validate ==
  /\ validNotes = <<>>
  /\ noteSequence.notes # <<>> => noteSequence.notes[1].bare
  /\ validNotes' = << validateNotes(Pitches(noteSequence.notes)) >>
  /\ UNCHANGED << engine, tasks, stopQuiet, home, recording,
                  noteSequence, track, timeline, noteStr, frequency,
                  midiNumber >>

downloadMidiFromNoteSequence ==
  /\ track = <<>>
  /\ track' = << DownloadTrack(noteSequence) >>
  /\ UNCHANGED << engine, tasks, stopQuiet, home, recording, noteSequence, validNotes,
                  timeline, noteStr, frequency, midiNumber >>

\* loadNoteSequence from "const midi = new Midi()" to the check of
\* notesAdded
LoadTrack ==
  /\ timeline = <<>>
  /\ timeline' = << [error |-> LoadEvents(noteSequence.notes, 0) = <<>>,
                     notes |-> LoadEvents(noteSequence.notes, 0)] >>
  /\ UNCHANGED << engine, tasks, stopQuiet, home, recording, noteSequence, validNotes,
                  track, noteStr, frequency, midiNumber >>

SequenceNext ==
  \/ Validate
  \/ downloadMidiFromNoteSequence
  \/ LoadTrack

SequenceSpec == SequenceInit /\ [][SequenceNext]_vars

\* The pure functions over one pitch string, drawn at the start.
PitchInit ==
  /\ EngineInit
  /\ recording = NotRecording
  /\ noteSequence = NoSequence
  /\ validNotes = <<>>
  /\ track = <<>>
  /\ timeline = <<>>
  /\ noteStr \in PitchInputs
  /\ frequency = <<>>
  /\ midiNumber = <<>>

NoteToFrequency ==
  /\ frequency = <<>>
  /\ frequency' = << noteToFrequency(noteStr) >>
  /\ UNCHANGED << engine, tasks, stopQuiet, home, recording, noteSequence, validNotes,
                  track, timeline, noteStr, midiNumber >>

\* the body of the loop of loadNoteSequence for noteStr: the MIDI number
\* of the note it adds, NoValue when it adds none
ParsePitch ==
  /\ midiNumber = <<>>
  /\ midiNumber' = << IF EngineMatch(noteStr) THEN EngineMidi(noteStr)
                      ELSE NoValue >>
  /\ UNCHANGED << engine, tasks, stopQuiet, home, recording, noteSequence, validNotes,
                  track, timeline, noteStr, frequency >>

PitchNext ==
  \/ NoteToFrequency
  \/ ParsePitch

PitchSpec == PitchInit /\ [][PitchNext]_vars

\* ---- audioExport.ts: downloadMp3FromNoteSequence, cut at its awaits --------
\* Times are in ticks of 1/30 s, which makes 60 / tempo and 0.8 of it whole
\* numbers for the tempos drawn.  The audio clock of Tone.now() and the
\* clock of setTimeout are taken to be one clock; a timer fires on time or
\* one tick late.
TicksPerSecond == 30

RecordInit ==
  /\ EngineInit
  /\ noteSequence \in
       [notes : UNION { [1..k -> {StringNote(tok) :
                                   tok \in { <<"C", "4">>, <<"E", "4">>,
                                             <<"X", "9">> }}] :
                        k \in 0..MaxRecorded },
        tempo : Tempos]
  /\ validNotes = <<>>
  /\ track = <<>>
  /\ timeline = <<>>
  /\ noteStr = <<>>
  /\ frequency = <<>>
  /\ midiNumber = <<>>
  /\ recording = NotRecording

\* (variant) the recording lasts as long as the notes, without the buffer
RecordNotes_NoBuffer(r, ns, strict) ==
  LET quarterNoteDuration == (60 * TicksPerSecond) \div ns.tempo
      now == r.clock + TicksPerSecond \div 2
      Loop[k \in 0..Len(ns.notes)] ==
        IF k = 0 THEN <<>>
        ELSE IF strict /\ ~isValidNote(ns.notes[k].pitch) THEN Loop[k - 1]
        ELSE Append(Loop[k - 1],
               [ time |-> now + Len(Loop[k - 1]) * quarterNoteDuration,
                 release |-> now + Len(Loop[k - 1]) * quarterNoteDuration
                               + (quarterNoteDuration * 8) \div 10,
                 recorder |-> "started" ])
      scheduled == Loop[Len(ns.notes)]
  IN [r EXCEPT !.pc = "recording", !.recorder = "started",
               !.startedAt = r.clock, !.scheduled = scheduled,
               !.totalDuration = Len(scheduled) * quarterNoteDuration]

\* From "const quarterNoteDuration" to the setTimeout of totalDuration:
\* recorder.start(), then the loop over the notes.  triggerAttackRelease
\* of a string that is no pitch either raises (strict) or does not; a note
\* that raises is not counted and does not advance currentTime.
RecordNotes(r, ns, strict) ==
  LET quarterNoteDuration == (60 * TicksPerSecond) \div ns.tempo
      now == r.clock + TicksPerSecond \div 2
      Loop[k \in 0..Len(ns.notes)] ==
        IF k = 0 THEN <<>>
        ELSE IF strict /\ ~isValidNote(ns.notes[k].pitch) THEN Loop[k - 1]
        ELSE Append(Loop[k - 1],
               [ time |-> now + Len(Loop[k - 1]) * quarterNoteDuration,
                 release |-> now + Len(Loop[k - 1]) * quarterNoteDuration
                               + (quarterNoteDuration * 8) \div 10,
                 recorder |-> "started" ])
      scheduled == Loop[Len(ns.notes)]
  IN [r EXCEPT !.pc = "recording", !.recorder = "started",
               !.startedAt = r.clock, !.scheduled = scheduled,
               !.totalDuration = Len(scheduled) * quarterNoteDuration
                                   + 2 * TicksPerSecond]

\* the call up to "await Tone.start()"
downloadMp3FromNoteSequence ==
  /\ recording.pc = "idle"
  /\ recording' = [recording EXCEPT !.pc = "toneStart"]
  /\ UNCHANGED << engine, tasks, stopQuiet, home, codec >>

\* Tone.start() rejects: the call throws before it has created anything
ToneStartRejects ==
  /\ recording.pc = "toneStart"
  /\ recording' = [recording EXCEPT !.pc = "failed"]
  /\ UNCHANGED << engine, tasks, stopQuiet, home, codec >>

\* Tone.start() resolves: the recorder is created, then the sampler, and
\* the call waits two seconds for the samples
SamplerCreated ==
  /\ recording.pc = "toneStart"
  /\ recording' = [recording EXCEPT !.pc = "samples",
                                    !.recorder = "created",
                                    !.instrument = "sampler"]
  /\ UNCHANGED << engine, tasks, stopQuiet, home, codec >>

\* Tone.start() resolves and new Tone.Sampler raises: the synth replaces
\* it and the call goes on without waiting
SynthCreated ==
  /\ recording.pc = "toneStart"
  /\ \E strict \in BOOLEAN :
       recording' = RecordNotes([recording EXCEPT !.recorder = "created",
                                                 !.instrument = "synth"],
                                noteSequence, strict)
  /\ UNCHANGED << engine, tasks, stopQuiet, home, codec >>

\* the two seconds are over
SamplesWaited ==
  /\ recording.pc = "samples"
  /\ \E late \in {0, 1} : \E strict \in BOOLEAN :
       recording' =
         RecordNotes([recording EXCEPT
                        !.clock = recording.clock + 2 * TicksPerSecond + late],
                     noteSequence, strict)
  /\ UNCHANGED << engine, tasks, stopQuiet, home, codec >>

\* the timer of totalDuration fires: recorder.stop() is called and awaited
RecordingWaited ==
  /\ recording.pc = "recording"
  /\ \E late \in {0, 1} :
       recording' =
         [recording EXCEPT
            !.pc = "stopping",
            !.clock = recording.clock + recording.totalDuration + late,
            !.stoppedAt = recording.clock + recording.totalDuration + late,
            !.recorder = "stopped"]
  /\ UNCHANGED << engine, tasks, stopQuiet, home, codec >>

\* recorder.stop() resolves: the file is downloaded and both resources are
\* disposed
RecorderStopped ==
  /\ recording.pc = "stopping"
  /\ recording' = [recording EXCEPT !.pc = "done", !.recorder = "disposed",
                                    !.instrument = "disposed"]
  /\ UNCHANGED << engine, tasks, stopQuiet, home, codec >>

\* recorder.stop() rejects: the catch logs the error and throws it again
RecorderStopRejects ==
  /\ recording.pc = "stopping"
  /\ recording' = [recording EXCEPT !.pc = "failed"]
  /\ UNCHANGED << engine, tasks, stopQuiet, home, codec >>

RecordNext ==
  \/ downloadMp3FromNoteSequence
  \/ ToneStartRejects
  \/ SamplerCreated
  \/ SynthCreated
  \/ SamplesWaited
  \/ RecordingWaited
  \/ RecorderStopped
  \/ RecorderStopRejects

RecordSpec == RecordInit /\ [][RecordNext]_vars

\* The volume is set at any time.
Volume == \E v \in Volumes : SetVolume(v)

VolumeNext ==
  \/ Register
  \/ Load
  \/ Play
  \/ PauseMidi
  \/ StopMidi
  \/ Tempo
  \/ Volume
  \/ CleanupMidiPlayer
  \/ Resumed
  \/ InstrumentLoaded
  \/ LoopEvent
  \/ LoopEndOfFile

VolumeSpec == Init /\ [][VolumeNext]_vars

\* The loads of the soundfont and the resume of the audio context may fail.
\* (A failing "new AudioContext()" leaves initMidiPlayer before it has
\* assigned anything: that call changes no state.)
InstrumentFailed == \E i \in 1..Len(tasks) : InstrumentRejects(i)
ResumeFailed == \E i \in 1..Len(tasks) : ResumeRejects(i)

FailNext ==
  \/ Register
  \/ Load
  \/ Play
  \/ PauseMidi
  \/ StopMidi
  \/ Tempo
  \/ CleanupMidiPlayer
  \/ Resumed
  \/ InstrumentLoaded
  \/ InstrumentFailed
  \/ ResumeFailed
  \/ LoopEvent
  \/ LoopEndOfFile

FailSpec == Init /\ [][FailNext]_vars

\* The Home component when the loads of the soundfont and the resume of the
\* audio context may fail: the handler's catch block reports the error and
\* leaves generatedNotes as handleGenerate set it before the load.
HomeFailNext ==
  \/ Mount
  \/ Generate
  \/ PressPlay
  \/ handlePause
  \/ handleStop
  \/ checkPlaybackStatus
  \/ HomeResumed
  \/ HomeInstrumentLoaded
  \/ InstrumentFailed
  \/ ResumeFailed
  \/ LoopEvent
  \/ LoopEndOfFile

HomeFailSpec == Init /\ [][HomeFailNext]_vars

\* Asynchronous calls are issued while others are still suspended.
RaceLoad ==
  \E c \in NewCtx : \E ns \in LoadArgs(RaceSequences, c) :
    LoadNoteSequence(ns, c)

RacePlay == \E c \in NewCtx : PlayMidi(c)

RaceResumed ==
  \E i \in 1..Len(tasks) : \E ns \in TaskArgs(RaceSequences, i) :
    ResumeSettles(i, ns)

RaceInstrumentLoaded ==
  \E i \in 1..Len(tasks) : \E ns \in TaskArgs(RaceSequences, i) :
    InstrumentResolves(i, ns)

RaceNext ==
  \/ Register
  \/ RaceLoad
  \/ RacePlay
  \/ PauseMidi
  \/ StopMidi
  \/ Tempo
  \/ CleanupMidiPlayer
  \/ RaceResumed
  \/ RaceInstrumentLoaded
  \/ LoopEvent
  \/ LoopEndOfFile

RaceSpec == Init /\ [][RaceNext]_vars

\* ---- steps and states the properties speak about ---------------------
IsPlaying(mp, pl) == mp # 0 /\ pl[mp].playing

\* Stopped / Playing / Paused as the Player holds it
Transport(mp, pl) ==
  IF mp = 0 THEN "NoPlayer"
  ELSE IF pl[mp].playing THEN "Playing"
  ELSE IF pl[mp].eventIndex = 0 THEN "Stopped"
  ELSE "Paused"

Loaded == midiPlayer # 0 /\ players[midiPlayer].loaded

\* the step in which a playMidi call returns
PlayReturns ==
  \/ \E c \in NewCtx : PlayMidi(c) /\ Len(tasks') = Len(tasks)
  \/ \E i \in 1..Len(tasks) :
       /\ tasks[i].op = "play"
       /\ ResumeSettles(i, NoSequence) \/ InstrumentResolves(i, NoSequence)
       /\ Len(tasks') < Len(tasks)

\* the step in which the call loadNoteSequence(ns) returns or throws
LoadReturns(ns) ==
  \/ \E c \in NewCtx : LoadNoteSequence(ns, c) /\ Len(tasks') = Len(tasks)
  \/ \E i \in 1..Len(tasks) :
       /\ tasks[i].op = "load"
       /\ ResumeSettles(i, ns) \/ InstrumentResolves(i, ns)
       /\ Len(tasks') < Len(tasks)

\* the handler of player id receives a Note-on / a Note-off event
NoteOnStep(id) ==
  PlayLoopEvent(id) /\ EventIsOn(players[id].eventIndex + 1)
NoteOffStep(id) ==
  PlayLoopEvent(id) /\ ~EventIsOn(players[id].eventIndex + 1)

IsPrefix(a, b) == Len(a) <= Len(b) /\ a = SubSeq(b, 1, Len(a))

\* ---- C1 ---------------------------------------------------------------------
\* C1: once stopMidi() has returned, no Note-on is handed to the observer
\* until a playMidi() is issued after that stop.
C1_NoNoteAfterStop ==
  [][stopQuiet =>
       ~(\E id \in PlayerIds : NoteOnStep(id) /\ noteCallback # 0)]_vars

\* ---- C2 ---------------------------------------------------------------------
\* C2: with a timeline loaded, a playMidi that returns leaves the transport
\* Playing at the position it had (and changes nothing when it was Playing
\* already); pauseMidi turns Playing into a not-playing state at the same
\* position and changes nothing otherwise; stopMidi leaves the transport
\* Stopped; isMidiPlaying is false when there is no player.
C2_TransportMachine ==
  [][ /\ (PlayReturns /\ Loaded /\ midiPlayer' = midiPlayer) =>
           /\ IsPlaying(midiPlayer', players')
           /\ players'[midiPlayer].eventIndex = players[midiPlayer].eventIndex
           /\ players'[midiPlayer].notes = players[midiPlayer].notes
           /\ isMidiPlaying => players' = players
      /\ PauseMidi =>
           IF isMidiPlaying
           THEN /\ ~IsPlaying(midiPlayer', players')
                /\ midiPlayer' = midiPlayer
                /\ players'[midiPlayer].eventIndex =
                     players[midiPlayer].eventIndex
                /\ players'[midiPlayer].notes = players[midiPlayer].notes
           ELSE UNCHANGED << midiPlayer, players >>
      /\ (StopMidi /\ midiPlayer # 0) =>
           Transport(midiPlayer', players') = "Stopped"
      /\ midiPlayer' = 0 => ~IsPlaying(midiPlayer', players')
    ]_vars

\* paused in the middle of a two-note timeline
C2_Witness ==
  /\ Loaded
  /\ Transport(midiPlayer, players) = "Paused"
  /\ Len(players[midiPlayer].notes) = 2
  /\ players[midiPlayer].eventIndex = 2

\* ---- C3 ---------------------------------------------------------------------
\* C3: the pitches of the Note-on events the engine's player has handed
\* over since its cursor was last at the start are the first notes of its
\* timeline, in order and one per Note-on event passed, whatever pauses,
\* resumes and tempo changes happened in between.
C3_PrefixInOrder ==
  midiPlayer # 0 =>
    LET p == players[midiPlayer]
    IN /\ IsPrefix(p.heard, p.notes)
       /\ Len(p.heard) = (p.eventIndex + 1) \div 2

\* the player was paused after the Note-on of the second note of a two-pitch
\* timeline, both pitches having reached the observer in order
C3_Witness ==
  /\ Loaded
  /\ Transport(midiPlayer, players) = "Paused"
  /\ players[midiPlayer].heard = <<60, 61>>
  /\ players[midiPlayer].eventIndex = 3
  /\ lastNote = 61

\* ---- C4 ---------------------------------------------------------------------
\* C4: stopMidi with a player leaves it not playing with the cursor at the
\* start and hands null to the registered observer; the first event handed
\* over from the start is the Note-on of the first note of the timeline.
C4_StopResets ==
  [][ /\ (StopMidi /\ midiPlayer # 0) =>
           /\ Transport(midiPlayer', players') = "Stopped"
           /\ players'[midiPlayer'].heard = <<>>
           /\ noteCallback # 0 => lastNote' = None
      /\ (midiPlayer # 0 /\ players[midiPlayer].eventIndex = 0
            /\ PlayLoopEvent(midiPlayer)) =>
           /\ players'[midiPlayer].heard = <<players[midiPlayer].notes[1]>>
           /\ noteCallback # 0 => lastNote' = players[midiPlayer].notes[1]
    ]_vars

\* stopped by stopMidi with a timeline loaded and an observer registered
C4_Witness ==
  /\ stopQuiet
  /\ Loaded
  /\ noteCallback # 0
  /\ Transport(midiPlayer, players) = "Stopped"
  /\ lastNote = None

\* ---- C5 ---------------------------------------------------------------------
\* C5: a player that is playing a loaded timeline eventually stops playing;
\* when it reaches the end of the file, the registered observer receives
\* null and the transport is Stopped with the cursor at the start.
C5_EndOfTimeline ==
  /\ (isMidiPlaying /\ Loaded) ~> ~isMidiPlaying
  /\ [][ (midiPlayer # 0 /\ PlayLoopEndOfFile(midiPlayer)) =>
           /\ midiPlayer' = midiPlayer
           /\ Transport(midiPlayer', players') = "Stopped"
           /\ players'[midiPlayer].heard = <<>>
           /\ noteCallback # 0 => lastNote' = None ]_vars

\* the whole two-note timeline has been handed over and the player still runs
C5_Witness ==
  /\ isMidiPlaying
  /\ Loaded
  /\ players[midiPlayer].eventIndex = 4
  /\ noteCallback # 0
  /\ lastNote # None

\* ---- C6 ---------------------------------------------------------------------
\* C6: when loadNoteSequence(S) returns successfully, the transport is
\* Stopped with the cursor at the start, the timeline is the parseable
\* notes of S, and no player of an earlier timeline is still running with
\* events left to hand over.
C6_LoadReplaces ==
  [][ \A ns \in RaceSequences :
        (LoadReturns(ns) /\ EngineNotes(ns.notes) # <<>>) =>
          /\ midiPlayer' # 0
          /\ Transport(midiPlayer', players') = "Stopped"
          /\ players'[midiPlayer'].notes = EngineNotes(ns.notes)
          /\ \A id \in PlayerIds \ {midiPlayer'} :
               ~(players'[id].playing
                 /\ players'[id].eventIndex < NumEvents(players'[id]))
    ]_vars

\* ---- C7 ---------------------------------------------------------------------
\* C7: a loadNoteSequence that fails because no token is parseable leaves
\* the player, its timeline, the transport and the engine tempo as they
\* were before the call.
C7_FailedLoadKeepsState ==
  [][ \A ns \in NoteSequences :
        (tasks = <<>> /\ LoadReturns(ns) /\ EngineNotes(ns.notes) = <<>>) =>
          UNCHANGED << midiPlayer, players, currentTempo >>
    ]_vars

\* ---- C8 ---------------------------------------------------------------------
\* C8: when a load of parseable notes returns after a load that was issued
\* later has already installed its timeline, the engine still holds the
\* timeline of the later call.
C8_LaterLoadWins ==
  [][ \A ns \in RaceSequences : \A i \in 1..Len(tasks) :
        ( /\ tasks[i].op = "load"
          /\ tasks[i].later # NoTimeline
          /\ EngineNotes(ns.notes) # <<>>
          /\ ResumeSettles(i, ns) \/ InstrumentResolves(i, ns)
          /\ Len(tasks') < Len(tasks) ) =>
          /\ midiPlayer' # 0
          /\ players'[midiPlayer'].notes = tasks[i].later
    ]_vars

\* ---- C9 ---------------------------------------------------------------------
\* C9: whenever the engine's player is not playing (Paused or Stopped) and
\* an observer is registered, the last value the observer received is null.
C9_SilentWhenNotPlaying ==
  (noteCallback # 0 /\ midiPlayer # 0 /\ ~players[midiPlayer].playing) =>
    lastNote = None

\* ---- C10 --------------------------------------------------------------------
\* C10: a Note-on hands its pitch to the registered observer and
\* the Note-off of that note hands it null.
C10_NoteOffClears ==
  [][ \A id \in PlayerIds :
        /\ (NoteOnStep(id) /\ noteCallback # 0) =>
             lastNote' = EventNote(players[id], players[id].eventIndex + 1)
        /\ (NoteOffStep(id) /\ noteCallback # 0) => lastNote' = None
    ]_vars

\* ---- C11 --------------------------------------------------------------------
\* C11: whatever the registered callback does, a Note-on handed to the
\* handler of the engine's player is sounded, stopMidi leaves the player
\* stopped, and the end of the timeline stops the player.
C11_CallbackNeverBreaksEngine ==
  [][ /\ \A id \in PlayerIds :
           (NoteOnStep(id) /\ id = midiPlayer) =>
             players'[id].heard =
               Append(players[id].heard,
                      EventNote(players[id], players[id].eventIndex + 1))
      /\ (StopMidi /\ midiPlayer # 0) =>
           Transport(midiPlayer', players') = "Stopped"
      /\ (midiPlayer # 0 /\ PlayLoopEndOfFile(midiPlayer)) =>
           Transport(midiPlayer', players') = "Stopped"
    ]_vars

\* ---- C12 --------------------------------------------------------------------
\* C12: a registration replaces the callback; every value goes to the
\* callback registered last; a Note-on, a stopMidi and the end of the
\* timeline each call it exactly once.
C12_OneCallPerEvent ==
  [][ /\ \A cb \in Observers :
           SetNoteTrackingCallback(cb) => noteCallback' = cb
      /\ (<< lastNote, lastObserver >>' # << lastNote, lastObserver >>) =>
           (noteCallback # 0 /\ lastObserver' = noteCallback)
      /\ \A id \in PlayerIds :
           (NoteOnStep(id) /\ noteCallback # 0) =>
             HandleEvent(Cur, id, players[id].eventIndex + 1).n = 1
      /\ (StopMidi /\ midiPlayer # 0 /\ noteCallback # 0) =>
           StopEngine(Cur).n = 1
      /\ \A id \in PlayerIds :
           (PlayLoopEndOfFile(id) /\ noteCallback # 0) =>
             HandleEndOfFile(Cur, id).n = 1
    ]_vars

\* C12 as amended: a registration replaces the callback; every value goes
\* to the callback registered last; a Note-on and a stopMidi call it
\* exactly once; the end of the timeline calls it once from the
\* 'endOfFile' listener and, unless that call raised or no player is
\* referenced, once more from the stopMidi the listener makes.
C12_OnlyLatestObserver ==
  [][ /\ \A cb \in Observers :
           SetNoteTrackingCallback(cb) => noteCallback' = cb
      /\ (<< lastNote, lastObserver >>' # << lastNote, lastObserver >>) =>
           (noteCallback # 0 /\ lastObserver' = noteCallback)
      /\ \A id \in PlayerIds :
           (NoteOnStep(id) /\ noteCallback # 0) =>
             HandleEvent(Cur, id, players[id].eventIndex + 1).n = 1
      /\ (StopMidi /\ midiPlayer # 0 /\ noteCallback # 0) =>
           StopEngine(Cur).n = 1
      /\ \A id \in PlayerIds :
           (PlayLoopEndOfFile(id) /\ noteCallback # 0) =>
             HandleEndOfFile(Cur, id).n =
               IF Throws(noteCallback) \/ midiPlayer = 0 THEN 1 ELSE 2
    ]_vars

\* callback 2, registered after callback 1 had received the first pitch,
\* has received the second pitch of the timeline
C12_Witness ==
  /\ noteCallback = 2
  /\ lastObserver = 2
  /\ isMidiPlaying
  /\ players[midiPlayer].heard = <<60, 61>>
  /\ lastNote = 61

\* ---- C13 --------------------------------------------------------------------
\* C13: a playMidi call that returns while no timeline is loaded has left
\* the player, the transport and the observer's last value as they were,
\* and the engine is not playing.
C13_PlayNothingIsNoOp ==
  [][ (PlayReturns /\ ~Loaded) =>
        /\ UNCHANGED << midiPlayer, players, lastNote >>
        /\ ~IsPlaying(midiPlayer', players')
    ]_vars

\* ---- C14 --------------------------------------------------------------------
\* the initMidiPlayer of the call at position i fails in this step
InitFails(i) ==
  \/ ResumeRejects(i) /\ tasks[i].pc = "resume"
  \/ InstrumentRejects(i) /\ tasks[i].pc = "instr2"

\* C14: when the initialisation of a call fails, the call throws, the
\* transport is not playing, and a call that was issued without an audio
\* context leaves none behind; player, instrument and isInitialized are as
\* before the failing await.
C14_FailedInitKeepsState ==
  [][ \A i \in 1..Len(tasks) :
        InitFails(i) =>
          /\ Len(tasks') < Len(tasks)
          /\ ~IsPlaying(midiPlayer', players')
          /\ UNCHANGED << midiPlayer, instrument, isInitialized >>
          /\ ~tasks[i].had => audioContext' = "none"
    ]_vars

\* ---- C15 --------------------------------------------------------------------
\* C15: a call whose primary instrument load has failed still completes
\* successfully: when it leaves the await of the fallback instrument, an
\* instrument is installed and the engine is initialised.
C15_FallbackAlwaysSucceeds ==
  [][ \A i \in 1..Len(tasks) :
        ( /\ tasks[i].pc = "instr2"
          /\ InstrumentRejects(i)
             \/ \E ns \in NoteSequences \cup {NoSequence} :
                  InstrumentResolves(i, ns) ) =>
          instrument' /\ isInitialized'
    ]_vars

\* ---- C16 --------------------------------------------------------------------
\* C16: cleanupMidiPlayer, in whatever state it is called, leaves player,
\* audio context and instrument null, isInitialized false and no callback
\* registered; called on the state it leaves, it changes nothing.
C16_CleanupIdempotent ==
  [][ CleanupMidiPlayer =>
        /\ midiPlayer' = 0
        /\ audioContext' = "none"
        /\ ~instrument'
        /\ ~isInitialized'
        /\ noteCallback' = 0
        /\ CleanupEngine(CleanupEngine(Cur)) = CleanupEngine(Cur)
        /\ ( /\ midiPlayer = 0
             /\ audioContext = "none"
             /\ ~instrument
             /\ ~isInitialized
             /\ noteCallback = 0 ) => UNCHANGED engine
    ]_vars

\* cleanupMidiPlayer was called during playback: nothing is held any more
\* and the observer's last value is still the pitch that was sounding
C16_Witness ==
  /\ midiPlayer = 0
  /\ audioContext = "none"
  /\ ~instrument
  /\ ~isInitialized
  /\ noteCallback = 0
  /\ gainNode # NoGain
  /\ lastNote = 61

\* ---- C17 --------------------------------------------------------------------
\* C17: after cleanupMidiPlayer has returned while a call is still
\* awaiting (no audio context, a suspended call, and no call issued
\* since), the engine holds no player, audio context or instrument, is
\* not initialised and calls no observer, whatever happens next.
C17_TeardownStays ==
  [][ (audioContext = "none" /\ tasks # <<>>) =>
        /\ midiPlayer' = 0
        /\ audioContext' = "none"
        /\ ~instrument'
        /\ ~isInitialized'
        /\ UNCHANGED << lastNote, lastObserver >>
    ]_vars

C19_TempoVolumeFrame ==
  [][ (Tempo \/ Volume) =>
        /\ UNCHANGED << midiPlayer, noteCallback, tasks, lastNote >>
        /\ Transport(midiPlayer', players') = Transport(midiPlayer, players)
        /\ \A id \in PlayerIds :
             players'[id] = [players[id] EXCEPT !.tempo = players'[id].tempo]
    ]_vars

\* tempo and volume have been changed, and the player stands paused in the
\* middle of its timeline
C19_Witness ==
  /\ Loaded
  /\ Transport(midiPlayer, players) = "Paused"
  /\ players[midiPlayer].eventIndex = 3
  /\ players[midiPlayer].tempo = 90
  /\ globalVolume = MinVolume

\* ---- C20 --------------------------------------------------------------------
\* C20: a loadNoteSequence whose tempo is not a positive number is
\* rejected: when it returns, the engine tempo is a valid tempo and the
\* engine holds no timeline loaded with the invalid tempo.
C20_InvalidTempoRejected ==
  [][ \A ns \in AnySequences :
        (ns.tempo \in InvalidTempos /\ LoadReturns(ns)) =>
          /\ currentTempo' \notin InvalidTempos
          /\ ~( /\ midiPlayer' # 0
                /\ players'[midiPlayer'].loaded
                /\ players'[midiPlayer'].tempo \in InvalidTempos )
    ]_vars

\* ---- C21 --------------------------------------------------------------------
\* C21: whenever the component's isPlaying is true while the engine
\* reports not playing, the component eventually has isPlaying false and
\* currentNote null, unless a new play request has made the engine play
\* again.
C21_Reconciles ==
  (isPlaying /\ ~isMidiPlaying) ~>
     ((~isPlaying /\ currentNote = None) \/ isMidiPlaying)

\* ---- C22 --------------------------------------------------------------------
\* the pitch strings of the grammar: a letter A-G, an optional # or b, one
\* octave digit 0-8
GrammarPitches ==
  LET L == {"A", "B", "C", "D", "E", "F", "G"}
      O == {"0", "1", "2", "3", "4", "5", "6", "7", "8"}
  IN { <<l, o>> : l \in L, o \in O } \cup
     { <<l, a, o>> : l \in L, a \in {"#", "b"}, o \in O }

\* C22: validateNotes returns exactly the tokens of its argument that match
\* the grammar, in their original order, and leaves its argument as it was;
\* ["C4","X9","G#3","H2"] yields ["C4","G#3"].
C22_ValidateNotesFilters ==
  [][ Validate =>
        LET in == Pitches(noteSequence.notes)
            out == validNotes'[1]
            keep == {i \in 1..Len(in) : in[i] \in GrammarPitches}
        IN /\ noteSequence' = noteSequence
           /\ Len(out) = Cardinality(keep)
           /\ \A i \in keep :
                out[Cardinality({j \in keep : j <= i})] = in[i]
           /\ in = << <<"C", "4">>, <<"X", "9">>, <<"G", "#", "3">>,
                      <<"H", "2">> >>
                => out = << <<"C", "4">>, <<"G", "#", "3">> >>
    ]_vars

\* the example of the claim has been filtered
C22_Witness ==
  /\ Pitches(noteSequence.notes) =
       << <<"C", "4">>, <<"X", "9">>, <<"G", "#", "3">>, <<"H", "2">> >>
  /\ validNotes = << << <<"C", "4">>, <<"G", "#", "3">> >> >>

\* ---- C23 --------------------------------------------------------------------
\* C23: for every pitch string of the grammar, noteToFrequency returns
\* 440 * 2^((midiNumber - 69) / 12), midiNumber being the number the MIDI
\* path computes for the string.
C23_FrequencyAgreesWithMidi ==
  (noteStr \in GrammarPitches /\ frequency # <<>> /\ midiNumber # <<>>) =>
    frequency[1] = [kind |-> "hz", semitonesFromA4 |-> midiNumber[1] - 69]

\* ---- C26 --------------------------------------------------------------------
\* C26: noteToFrequency returns the sentinel 0 for every string that is
\* not a pitch of the grammar.
C26_UnparseableGivesZero ==
  (noteStr \notin GrammarPitches /\ frequency # <<>>) =>
    frequency[1] = [kind |-> "zero", semitonesFromA4 |-> 0]

\* ---- C27 --------------------------------------------------------------------
\* C27: in every octave 0-8, each of Db, Eb, Gb, Ab, Bb gets the MIDI
\* number and the semitone offset of its enharmonic sharp C#, D#, F#, G#,
\* A#.
C27_FlatsEqualSharps ==
  \A pair \in { <<"D", "C">>, <<"E", "D">>, <<"G", "F">>, <<"A", "G">>,
                <<"B", "A">> } :
    \A o \in {"0", "1", "2", "3", "4", "5", "6", "7", "8"} :
      LET sharp == <<pair[2], "#", o>>
      IN /\ (noteStr = <<pair[1], "b", o>> /\ midiNumber # <<>>) =>
              /\ EngineMatch(sharp)
              /\ midiNumber[1] = EngineMidi(sharp)
         /\ (noteStr = <<pair[1], "b", o>> /\ frequency # <<>>) =>
              /\ frequency[1].kind = "hz"
              /\ frequency[1] = noteToFrequency(sharp)

\* both numbers of Gb8 have been computed
C27_Witness ==
  /\ noteStr = <<"G", "b", "8">>
  /\ midiNumber = <<114>>
  /\ frequency = << [kind |-> "hz", semitonesFromA4 |-> 45] >>

\* ---- C28 --------------------------------------------------------------------
\* C28: the MIDI number of a pitch whose name is C, C#, D, ..., B is
\* 60..71 for the name plus (octave - 4) * 12; C4 is 60, C5 is 72, A4 is
\* 69, and the next octave of any pitch is 12 higher.
C28_MidiNumberFormula ==
  LET table == << <<"C">>, <<"C", "#">>, <<"D">>, <<"D", "#">>, <<"E">>,
                  <<"F">>, <<"F", "#">>, <<"G">>, <<"G", "#">>, <<"A">>,
                  <<"A", "#">>, <<"B">> >>
      octaves == << "0", "1", "2", "3", "4", "5", "6", "7", "8" >>
  IN (noteStr \in GrammarPitches /\ midiNumber # <<>>) =>
       /\ \A i \in 1..12 : \A o \in 1..9 :
            noteStr = table[i] \o <<octaves[o]>> =>
              midiNumber[1] = (59 + i) + ((o - 1) - 4) * 12
       /\ noteStr = <<"C", "4">> => midiNumber[1] = 60
       /\ noteStr = <<"C", "5">> => midiNumber[1] = 72
       /\ noteStr = <<"A", "4">> => midiNumber[1] = 69
       /\ \A o \in 1..8 :
            noteStr[Len(noteStr)] = octaves[o] =>
              LET up == SubSeq(noteStr, 1, Len(noteStr) - 1)
                          \o <<octaves[o + 1]>>
              IN EngineMatch(up) /\ EngineMidi(up) = midiNumber[1] + 12

\* the number of C5 has been computed
C28_Witness == noteStr = <<"C", "5">> /\ midiNumber = <<72>>

\* ---- C24 --------------------------------------------------------------------
\* C24: the export builder and the engine's load emit a note event for a
\* token only if the token is a pitch of the grammar; every other token is
\* skipped.
C24_OnlyGrammarPitchesEmitted ==
  LET in == noteSequence.notes
      grammar == {i \in 1..Len(in) : in[i].pitch \in GrammarPitches}
  IN /\ (track # <<>> /\ in # <<>> /\ in[1].bare) =>
          Len(track[1].notes) = Cardinality(grammar)
     /\ (timeline # <<>> /\ in # <<>> /\ in[1].bare) =>
          Len(timeline[1].notes) = Cardinality(grammar)

\* ---- C25 --------------------------------------------------------------------
\* C25: every note event of the export builder and of the engine's load
\* has a MIDI number in 0..127.
C25_MidiNumberInRange ==
  /\ track # <<>> =>
       \A k \in 1..Len(track[1].notes) : track[1].notes[k].midi \in 0..127
  /\ timeline # <<>> =>
       \A k \in 1..Len(timeline[1].notes) :
         timeline[1].notes[k].midi \in 0..127

\* ---- C29 --------------------------------------------------------------------
\* C29: of bare pitch strings the builder emits, in input order, exactly
\* one event per parseable token (a name A-G with an optional # or b, then
\* digits); the first event starts at 0 and each event starts at the sum of
\* the durations of the events before it; every event lasts 0.5 s with
\* velocity 0.8, so ["C4","E4","G4"] start at 0, 0.5 and 1.0.
C29_SequentialLayout ==
  LET in == noteSequence.notes
      ev == track[1].notes
      chromatic == << <<"C">>, <<"C", "#">>, <<"D">>, <<"D", "#">>, <<"E">>,
                      <<"F">>, <<"F", "#">>, <<"G">>, <<"G", "#">>, <<"A">>,
                      <<"A", "#">>, <<"B">> >>
      Number(str) ==   \* of a parseable string whose name is in chromatic
        LET n == IF str[2] \in {"#", "b"} THEN 2 ELSE 1
            i == CHOOSE i \in 1..12 : chromatic[i] = SubSeq(str, 1, n)
        IN 59 + i + 12 * (ParseInt(SubSeq(str, n + 1, Len(str))) - 4)
      Parseable(str) ==
        \E n \in {1, 2} :
          /\ Len(str) > n
          /\ str[1] \in {"A", "B", "C", "D", "E", "F", "G"}
          /\ n = 2 => str[2] \in {"#", "b"}
          /\ \A i \in (n + 1)..Len(str) :
               str[i] \in {"0", "1", "2", "3", "4", "5", "6", "7", "8", "9"}
      keep == {i \in 1..Len(in) : Parseable(in[i].pitch)}
      Sum[k \in 0..Len(ev)] == IF k = 0 THEN 0 ELSE Sum[k - 1] + ev[k].duration
      example == Events(<< StringNote(<<"C", "4">>), StringNote(<<"E", "4">>),
                           StringNote(<<"G", "4">>) >>, 0)
  IN /\ (track # <<>> /\ in # <<>> /\ in[1].bare) =>
          /\ Len(ev) = Cardinality(keep)
          /\ \A i \in keep :
               ev[Cardinality({j \in keep : j <= i})].midi
                 = Number(in[i].pitch)
          /\ \A k \in 1..Len(ev) :
               /\ ev[k].time = Sum[k - 1]
               /\ ev[k].duration = 5
               /\ ev[k].velocity = 8
          /\ ev # <<>> => ev[1].time = 0
     /\ Len(example) = 3
     /\ example[1].time = 0 /\ example[2].time = 5 /\ example[3].time = 10

\* a list with a skipped token and a repeated pitch has been laid out
C29_Witness ==
  /\ Pitches(noteSequence.notes)
       = << <<"C", "4">>, <<"X", "9">>, <<"C", "4">>, <<"E", "4">> >>
  /\ track # <<>>
  /\ Len(track[1].notes) = 3
  /\ track[1].notes[2] = [midi |-> 60, time |-> 5, duration |-> 5,
                          velocity |-> 8]
  /\ track[1].notes[3].midi = 64 /\ track[1].notes[3].time = 10

\* ---- C30 --------------------------------------------------------------------
\* C30: in the track the builder emits, structured notes included, every
\* event has a duration above 0 and starts no earlier than the end of the
\* event before it.
C30_Monophonic ==
  track # <<>> =>
    LET ev == track[1].notes
    IN /\ \A k \in 1..Len(ev) : ev[k].duration > 0
       /\ \A k \in 1..(Len(ev) - 1) :
            ev[k + 1].time >= ev[k].time + ev[k].duration

\* ---- C31 --------------------------------------------------------------------
\* C31: the builder fails, and makes no file, exactly when it emitted no
\* note event: of an empty list and of a list without a parseable pitch.
C31_NoEmptyFile ==
  LET in == noteSequence.notes
      Parseable(str) ==
        \E n \in {1, 2} :
          /\ Len(str) > n
          /\ str[1] \in {"A", "B", "C", "D", "E", "F", "G"}
          /\ n = 2 => str[2] \in {"#", "b"}
          /\ \A i \in (n + 1)..Len(str) :
               str[i] \in {"0", "1", "2", "3", "4", "5", "6", "7", "8", "9"}
  IN track # <<>> =>
       /\ track[1].error <=> track[1].notes = <<>>
       /\ track[1].error <=> ~ \E i \in 1..Len(in) : Parseable(in[i].pitch)

\* the builder has failed on a list without a parseable pitch
C31_Witness ==
  /\ Pitches(noteSequence.notes) = << <<"X", "9">>, <<"H", "2">> >>
  /\ track = << [error |-> TRUE, notes |-> <<>>] >>

C33_StructuredNotesLoad ==
  LET in == noteSequence.notes
  IN ( /\ timeline # <<>>
       /\ in # <<>>
       /\ \A i \in 1..Len(in) :
            ~in[i].bare /\ in[i].pitch \in GrammarPitches ) =>
       /\ ~timeline[1].error
       /\ Len(timeline[1].notes) = Len(in)
       /\ \A i \in 1..Len(in) :
            /\ in[i].duration # NoValue =>
                 timeline[1].notes[i].duration = in[i].duration
            /\ (in[i].velocity \in 0..10) =>
                 timeline[1].notes[i].velocity = in[i].velocity

\* ---- C34 --------------------------------------------------------------------
\* C34: the recorder is started before any note is scheduled, and it is
\* stopped only after the total duration (the notes scheduled times the
\* slot of a note, plus two seconds) has passed since the scheduling, which
\* is later than the release of the last note scheduled.
C34_CaptureEnclosesPlayback ==
  LET r == recording
      slot == (60 * 30) \div noteSequence.tempo
  IN /\ \A k \in 1..Len(r.scheduled) :
          /\ r.scheduled[k].recorder = "started"
          /\ r.scheduled[k].time >= r.startedAt
     /\ r.stoppedAt # -1 =>
          /\ r.stoppedAt >= r.startedAt + Len(r.scheduled) * slot + 60
          /\ \A k \in 1..Len(r.scheduled) :
               r.scheduled[k].release < r.stoppedAt

\* three notes were recorded at tempo 90 and the recorder has been stopped
C34_Witness ==
  /\ noteSequence.tempo = 90
  /\ Len(recording.scheduled) = 3
  /\ recording.recorder = "stopped"
  /\ recording.stoppedAt = recording.startedAt + 120

\* ---- C35 --------------------------------------------------------------------
\* C35: when downloadMp3FromNoteSequence has returned or thrown after it
\* created the recorder and the instrument, both have been disposed.
C35_ResourcesReleased ==
  (recording.pc \in {"done", "failed"} /\ recording.recorder # "none") =>
    /\ recording.recorder = "disposed"
    /\ recording.instrument = "disposed"

\* ---- C39 --------------------------------------------------------------------
\* C39: for bare pitch strings at any tempo, consecutive notes scheduled by
\* the recording are as far apart as the start times of consecutive notes
\* of the engine's timeline, 0.5 s.
C39_SameOnsetIntervals ==
  LET s == recording.scheduled
      t == LoadEvents(noteSequence.notes, 0)
  IN \A k \in 1..(Len(s) - 1) :
       /\ 10 * (s[k + 1].time - s[k].time) = 30 * 5
       /\ k + 1 <= Len(t) =>
            10 * (s[k + 1].time - s[k].time) = 30 * (t[k + 1].time - t[k].time)

\* ---- C36 --------------------------------------------------------------------
\* C36: at every moment, for every interleaving of the engine's operations
\* (overlapping initialisations included), at most one player instance is
\* playing, and a playing instance is the one the engine references: a
\* replaced player is never left running.
C36_SinglePlayer ==
  \A id \in PlayerIds :
    players[id].playing => id = midiPlayer

\* ---- C37 --------------------------------------------------------------------
\* C37: after every sequence of generate attempts, failing loads included,
\* whenever the component's generatedNotes is non-empty and no call is
\* suspended, the engine holds a loaded timeline built from exactly those
\* notes (so Play never starts a player with nothing loaded).
C37_UiMatchesEngine ==
  (generatedNotes # <<>> /\ tasks = <<>>) =>
    /\ Loaded
    /\ players[midiPlayer].notes = EngineNotes(generatedNotes)

\* ---- C38 --------------------------------------------------------------------
\* C38: for every sequence of bare pitch strings, the export builder and the
\* engine's load build the same events (pitch number, start time, duration,
\* velocity, in the same order), and one fails exactly when the other does.
C38_BuildersAgree ==
  ( /\ track # <<>>
    /\ timeline # <<>>
    /\ \A i \in 1..Len(noteSequence.notes) : noteSequence.notes[i].bare ) =>
    /\ track[1].error = timeline[1].error
    /\ track[1].notes = timeline[1].notes

\* both builders have run on a list of strings of which one was skipped
\* and one was emitted
C38_Witness ==
  /\ track # <<>>
  /\ timeline # <<>>
  /\ \A i \in 1..Len(noteSequence.notes) : noteSequence.notes[i].bare
  /\ Len(timeline[1].notes) = 1
  /\ Len(noteSequence.notes) = 2
  /\ track[1] = timeline[1]

====
